---- MODULE Spec2Model ----
(***************************************************************************)
(* pr_dedupe: one run of the batch job (src/main.rs) against the Upstash   *)
(* vector index (src/upstash.rs), with the id codec of src/utils.rs and    *)
(* the embedding of src/bert.rs; SpecRuns is a sequence of such runs for   *)
(* one PR, SpecEmbed is concurrent calls of Bert::generate_embeddings on   *)
(* one Bert.                                                               *)
(*                                                                         *)
(* Strings are sequences of tokens (a token is one character, or a fixed   *)
(* literal of a format! template).  An f32 score is a fixed-point number   *)
(* with ScoreScale units to 1.0; percentages keep the same scale.          *)
(***************************************************************************)
EXTENDS Integers, Sequences, FiniteSets, TLC

VARIABLES
    REPO_NAME,       \* env REPO_NAME
    PR_NUMBER,       \* env PR_NUMBER
    closed,          \* Args.closed (raw text)
    top_k,           \* Args.top_k
    min_similarity,  \* Args.min_similarity
    added_files,     \* Args.added_files    (raw comma separated text)
    modified_files,  \* Args.modified_files
    removed_files,   \* Args.removed_files
    renamed_files,   \* Args.renamed_files
    pc,              \* position of main
    exit_code,       \* process exit status, None while running
    store,           \* the remote index: id -> vector, None when absent
    trace,           \* history: the requests and pipeline steps of this run, in order
    issued,          \* number of file downloads started
    pending,         \* indices of pr_files whose download is in flight
    pr_content,      \* Vec<String> pr_content
    embedding,       \* the PR-level vector, None before it is computed
    response,        \* history: the QueryResult.result the store answered with
    similar_prs,     \* SimilarPRs.data returned by query
    src_ids,         \* history: the Data.id behind each element of similar_prs
    output,          \* contents of the GITHUB_OUTPUT file
    chunks,          \* bert.rs 246: the chunks handed to Bert::generate_embeddings
    slots,           \* bert.rs 213: the result buffer `embeddings`
    running,         \* bert.rs 220: indices of the forward passes not yet finished
    runs,            \* number of runs of the job started for this PR
    last_run,        \* history: what the last run that ended Done did
    caller_pc,       \* position of each caller of Bert::generate_embeddings on one Bert
    write_lock,      \* holder of the write guard of Bert.tokenizer, None when free
    padding          \* the padding strategy of the shared tokenizer

vars == <<REPO_NAME, PR_NUMBER, closed, top_k, min_similarity, added_files,
          modified_files, removed_files, renamed_files, pc, exit_code, store,
          trace, issued, pending, pr_content, embedding, response,
          similar_prs, src_ids, output, chunks, slots, running, runs,
          last_run, caller_pc, write_lock, padding>>

\* Option<T>: None is <<>>, Some(x) is <<x>>
None == <<>>

Some(x) == <<x>>

\* ------------------------------------------------------------------ bounds
MaxStored == 2      \* entries the index holds when the run starts
MaxChunks == 2      \* chunks the text splitter cuts the content with one long file into
MaxRuns == 2        \* runs of the job for one PR
MaxCallers == 2     \* concurrent calls of Bert::generate_embeddings on one Bert

\* ------------------------------------------------------- program constants
ScoreScale == 20    \* fixed-point resolution of Data.score (units per 1.0)
Hundred == 100      \* d.score * 100.0
BufferSize == 10    \* buffer_unordered(10)
DefaultMinSimilarity == 80  \* Args.min_similarity default
ExitFailure == 1    \* exit(1)
ExitPanic == 101    \* a panic (unwrap on Err) ends the process with 101
MaxTokens == 384    \* bert::generate_embeddings(pr_content, 384)

\* -------------------------------------------------------------- sequences
Range(s) == {s[i] : i \in DOMAIN s}

Last(s) == s[Len(s)]

RECURSIVE SplitAcc(_, _, _, _)
SplitAcc(s, sep, cur, acc) ==
    IF s = <<>> THEN Append(acc, cur)
    ELSE IF Head(s) = sep
         THEN SplitAcc(Tail(s), sep, <<>>, Append(acc, cur))
         ELSE SplitAcc(Tail(s), sep, Append(cur, Head(s)), acc)

\* str::split(sep): the segments between separators, empty ones included
Split(s, sep) == SplitAcc(s, sep, <<>>, <<>>)

\* the elements of s at the indices in I, in order
RECURSIVE AtIndices(_, _, _)
AtIndices(s, I, i) ==
    IF i > Len(s) THEN <<>>
    ELSE IF i \in I THEN <<s[i]>> \o AtIndices(s, I, i + 1)
         ELSE AtIndices(s, I, i + 1)

\* ------------------------------------------------------------- utils.rs
uuid(repo_name, pr_number) == repo_name \o <<":">> \o pr_number

uuid_to_pr_number(id) == Last(Split(id, ":"))

uuid_to_repo_name(id) == Head(Split(id, ":"))

\* ----------------------------------------------------------- upstash.rs
\* format!("https://github.com/{}/pull/{pr_number}", &repo_name)
add_pr_prefix(repo_name, pr_number) ==
    <<"https://github.com/">> \o repo_name \o <<"/pull/">> \o pr_number

\* mutant: the filter keeps the querying PR's own entry
FromFilter_NoSelfCheck(repo_name, pr_number, d) ==
    repo_name = uuid_to_repo_name(d.id)

\* the .filter closure of From<QueryResult>
FromFilter(repo_name, pr_number, d) ==
    /\ repo_name = uuid_to_repo_name(d.id)
    /\ add_pr_prefix(repo_name, uuid_to_pr_number(d.id))
         /= add_pr_prefix(repo_name, pr_number)

\* the .map closure of From<QueryResult>
FromMap(repo_name, d) ==
    [pr_url |-> add_pr_prefix(repo_name, uuid_to_pr_number(d.id)),
     percentage |-> d.score * Hundred]

\* min_similarity as f32
AsF32(n) == n * ScoreScale

\* mutant: the boundary percentage == min_similarity is dropped
Retains_Strict(m, min) == m.percentage > AsF32(min)

\* mutant: nothing is dropped by the threshold
Retains_All(m, min) == TRUE

\* the .retain closure of Upstash::query
Retains(m, min) == m.percentage >= AsF32(min)

\* From<QueryResult> followed by retain: the matches, and the id behind each
QueryMatches(result, repo_name, pr_number, min) ==
    LET passed == {i \in DOMAIN result : FromFilter(repo_name, pr_number, result[i])}
        kept == {i \in passed : Retains(FromMap(repo_name, result[i]), min)}
        ds == AtIndices(result, kept, 1)
    IN  [data |-> [i \in DOMAIN ds |-> FromMap(repo_name, ds[i])],
         ids |-> [i \in DOMAIN ds |-> ds[i].id]]

\* -------------------------------------------------------------- main.rs
\* impl From<FileAction> for char
Symbol(action) ==
    CASE action = "Added" -> "+"
      [] action = "Modified" -> "M"
      [] action = "Removed" -> "-"
      [] action = "Renamed" -> "^"

\* fn parse
parse(file_type, path, content) ==
    IF content = None
    THEN <<Symbol(file_type), " : ">> \o path \o <<"\n">>
    ELSE <<Symbol(file_type), " : ">> \o path \o <<"\n">> \o content[1] \o <<"\n">>

\* closed.trim().parse::<bool>()
ParseBool(text) ==
    LET trimmed == SelectSeq(text, LAMBDA c : c /= " ")
    IN  IF trimmed = <<"true">> THEN "true"
        ELSE IF trimmed = <<"false">> THEN "false"
        ELSE "err"

FILES_TO_IGNORE == {".lock"}

ends_with(file, suffix) == file /= <<>> /\ Last(file) = suffix

raw_url_prefix(repo_name) ==
    <<"https://github.com/">> \o repo_name \o <<"/raw/", "GITHUB_SHA", "/">>

Tagged(files, action) ==
    LET parts == Split(files, ",")
    IN  [i \in DOMAIN parts |-> [file |-> parts[i], action |-> action]]

\* the downloads of the run, in list order: (url, action)
pr_files(repo_name, added, modified) ==
    LET all == Tagged(added, "Added") \o Tagged(modified, "Modified")
        keep == SelectSeq(all, LAMBDA f :
                    /\ f.file /= <<>>
                    /\ ~ \E suffix \in FILES_TO_IGNORE : ends_with(f.file, suffix))
    IN  [i \in DOMAIN keep |->
            [path |-> raw_url_prefix(repo_name) \o keep[i].file,
             action |-> keep[i].action]]

\* pr_content.extend(...): the removed and renamed files, rendered without content
Extension(repo_name, removed, renamed) ==
    LET all == Tagged(removed, "Removed") \o Tagged(renamed, "Renamed")
        keep == SelectSeq(all, LAMBDA f : f.file /= <<>>)
    IN  [i \in DOMAIN keep |->
            parse(keep[i].action, raw_url_prefix(repo_name) \o keep[i].file, None)]

\* SimilarPRs::to_html_table: "" when there is no match, else one row per match
\* holding the text after "pull/" and the percentage
to_html_table(data) ==
    [i \in DOMAIN data |->
        LET url == data[i].pr_url
            at == CHOOSE k \in DOMAIN url :
                     /\ url[k] = "/pull/"
                     /\ \A j \in 1..(k - 1) : url[j] /= "/pull/"
        IN  [pr |-> SubSeq(url, at + 1, Len(url)),
             percentage |-> data[i].percentage]]

\* fn set_output: std::fs::write replaces the contents of the file
set_output(file, key, value) == <<[key |-> key, value |-> value]>>

\* main.rs 253 hands pr_content to a function taking one &str: the text is the
\* elements of pr_content one after the other
Blob(content) ==
    LET RECURSIVE Cat(_)
        Cat(k) == IF k = 0 THEN <<>> ELSE Cat(k - 1) \o content[k]
    IN  Cat(Len(content))

\* a file body of (MaxChunks - 1) * MaxTokens characters
LongBody == "LONG"

CharLen(tok) == IF tok = LongBody THEN (MaxChunks - 1) * MaxTokens ELSE Len(tok)

CharCount(text) ==
    LET RECURSIVE Sum(_)
        Sum(k) == IF k = 0 THEN 0 ELSE Sum(k - 1) + CharLen(text[k])
    IN  Sum(Len(text))

IsBlank(text) == \A k \in DOMAIN text : text[k] \in {" ", "\n"}

\* fn chunk_large_text: TextSplitter with_trim_chunks(true) and a capacity of
\* max_tokens characters. A text that is only whitespace trims to nothing and
\* gives no chunk; any other text gives the fewest chunks that hold it. Chunk
\* i is named by its position and the text it was cut from.
chunk_large_text(text, max_tokens) ==
    LET n == IF IsBlank(text) THEN 0
             ELSE (CharCount(text) + max_tokens - 1) \div max_tokens
    IN  [i \in 1..n |-> [part |-> i, of |-> text]]

\* bert.rs 213: Tensor::ones((2, 3)), the value every slot starts with
OnesTensor == [ones |-> <<2, 3>>]

\* bert.rs 221-227: the forward pass of the model on one chunk (the model is a
\* fixed function of the tokens)
Forward(chunk) == [hidden |-> chunk]

\* mutant: the result is pushed into the first free slot, in completion order
ForwardWrite_Push(buffer, i, tensor) ==
    LET free == CHOOSE k \in DOMAIN buffer :
                    /\ buffer[k] = OnesTensor
                    /\ \A j \in 1..(k - 1) : buffer[j] /= OnesTensor
    IN  [buffer EXCEPT ![free] = tensor]

\* bert.rs 228: embeddings[*i] = embedding, under the mutex
ForwardWrite(buffer, i, tensor) == [buffer EXCEPT ![i] = tensor]

\* EmbeddingResponse::to_vec after the average pooling: the vector of the
\* pooled tensor (the pooling is a fixed function of the tensor)
Embed(content) == [of |-> content]

\* EmbeddingResponse::to_vec (bert.rs 29-47): exactly one embedding is Ok, any
\* other number is Err
to_vec(stacked) == IF Len(stacked) = 1 THEN Some(Embed(stacked[1])) ELSE None

\* one entry of the history: a step of the run, what it was given, how it ended
Event(op, id, vector, ok) == [op |-> op, id |-> id, vector |-> vector, ok |-> ok]

\* mutant: the vector is persisted first and queried afterwards
After_SaveFirst(step) ==
    CASE step = "embed" -> "save"
      [] step = "save" -> "query"
      [] step = "query" -> "output"
      [] step = "output" -> "done"

\* main.rs 253-281: the statements of the open path after the content is
\* assembled, in program order
After(step) ==
    CASE step = "embed" -> "query"
      [] step = "query" -> "save"
      [] step = "save" -> "output"
      [] step = "output" -> "done"

\* ------------------------------------------------------------ input sets
RepoNames == {<<"o", "/", "r">>, <<"o", "/", "r", ":", "x">>}

PrNumbers == {<<"7">>, <<"8">>, <<"1", "0">>}

ClosedArgs == {<<"true">>, <<" ", "false", " ">>, <<"1">>}

TopKs == {1, 2}

MinSimilarities == {0, DefaultMinSimilarity}

\* (added, modified, removed, renamed)
FileArgs ==
    { <<<<>>, <<>>, <<>>, <<>>>>,
      <<<<"a.rs">>, <<"m.rs">>, <<"x.rs">>, <<>>>>,
      <<<<"c", ".lock">>, <<>>, <<>>, <<>>>>,
      <<<<",">>, <<>>, <<>>, <<>>>> }

Contents == {<<"hello">>, <<LongBody>>}

\* every id a tenant of the index can have written
StoreIds == {uuid(r, p) : r \in RepoNames, p \in PrNumbers}

OldVector == to_vec(<<Forward(chunk_large_text(<<"old">>, MaxTokens)[1])>>)[1]

\* cosine similarities -1.0, 0.8 and 1.0
Scores == {0 - ScoreScale, (4 * ScoreScale) \div 5, ScoreScale}

Stored(st) == {id \in StoreIds : st[id] /= None}

\* the answers the index can give to a topK query: min(topK, stored) entries
\* with distinct ids, in any order, each with a score
Answers(st, k) ==
    LET n == IF Cardinality(Stored(st)) < k THEN Cardinality(Stored(st)) ELSE k
    IN  {r \in [1..n -> [id : Stored(st), score : Scores]] :
            \A i, j \in 1..n : i /= j => r[i].id /= r[j].id}

\* the tasks that call generate_embeddings on the same Bert
Callers == 1..MaxCallers

\* last_run before any run of the model has ended Done
NoRun == [path |-> "none", vector |-> None, content |-> {}, matches |-> {}]

\* the cosine similarity the index scores an entry with: 1.0 for the queried
\* vector itself, 0.8 for any other
Similarity(query, entry) == IF entry = query THEN ScoreScale ELSE (4 * ScoreScale) \div 5

\* the answers of an index that ranks: the topK entries of highest score, each
\* with its similarity to the queried vector, best first
Ranked(st, k, query) ==
    {r \in Answers(st, k) :
        /\ \A i \in DOMAIN r : r[i].score = Similarity(query, st[r[i].id])
        /\ \A i, j \in DOMAIN r : i < j => r[i].score >= r[j].score
        /\ \A id \in Stored(st) \ {r[i].id : i \in DOMAIN r} :
              \A i \in DOMAIN r : Similarity(query, st[id]) <= r[i].score}

\* mutant: the index keeps the vector it already holds under the id
Upsert_KeepOld(st, id, vector) ==
    IF st[id] /= None THEN st ELSE [st EXCEPT ![id] = vector]

\* the index on an upsert: the vector replaces whatever the id held
Upsert(st, id, vector) == [st EXCEPT ![id] = vector]

\* ------------------------------------------------------------------ Init
Init ==
    /\ REPO_NAME \in RepoNames
    /\ PR_NUMBER \in PrNumbers
    /\ closed \in ClosedArgs
    /\ top_k \in TopKs
    /\ min_similarity \in MinSimilarities
    /\ \E f \in FileArgs :
          /\ added_files = f[1]
          /\ modified_files = f[2]
          /\ removed_files = f[3]
          /\ renamed_files = f[4]
    /\ \E ids \in SUBSET StoreIds :
          /\ Cardinality(ids) <= MaxStored
          /\ store = [id \in StoreIds |-> IF id \in ids THEN Some(OldVector) ELSE None]
    /\ pc = "start"
    /\ exit_code = None
    /\ trace = <<>>
    /\ issued = 0
    /\ pending = {}
    /\ pr_content = <<>>
    /\ embedding = None
    /\ response = <<>>
    /\ similar_prs = <<>>
    /\ src_ids = <<>>
    /\ output = <<>>
    /\ chunks = <<>>
    /\ slots = <<>>
    /\ running = {}
    /\ runs = 1
    /\ last_run = NoRun
    /\ caller_pc = [c \in Callers |-> "idle"]
    /\ write_lock = None
    /\ padding = "unset"

args == <<REPO_NAME, PR_NUMBER, closed, top_k, min_similarity, added_files,
          modified_files, removed_files, renamed_files>>

\* the state of Bert::generate_embeddings
inference == <<chunks, slots, running>>

\* what outlives one run, beside the index
history == <<runs, last_run>>

\* the Bert shared by the callers: RwLock<Tokenizer> and who is where
encoder == <<caller_pc, write_lock, padding>>

\* the state of main
run == <<pc, exit_code, store, trace, issued, pending, pr_content, embedding,
         response, similar_prs, src_ids, output>>

\* mutant: a failed query is logged and the run goes on
Exit_LogOnly(code) ==
    IF pc = "query"
    THEN pc' = "save" /\ UNCHANGED exit_code
    ELSE pc' = "failed" /\ exit_code' = Some(code)

\* log_err_and_exit, or a panic: the process ends with the given status
Exit(code) ==
    /\ pc' = "failed"
    /\ exit_code' = Some(code)

\* main.rs 131-149: the provider is not "upstash", or Upstash::new fails
\* (a missing env variable, an invalid token or url)
ClientError ==
    /\ pc = "start"
    /\ Exit(ExitFailure)
    /\ trace' = Append(trace, Event("client", <<>>, None, FALSE))
    /\ UNCHANGED <<args, inference, history, encoder, store, issued, pending, pr_content, embedding,
                   response, similar_prs, src_ids, output>>

\* main.rs 131-151: the client is built
ClientCreated ==
    /\ pc = "start"
    /\ pc' = "client"
    /\ trace' = Append(trace, Event("client", <<>>, None, TRUE))
    /\ UNCHANGED <<args, inference, history, encoder, exit_code, store, issued, pending, pr_content,
                   embedding, response, similar_prs, src_ids, output>>

\* main.rs 153: closed is neither true nor false, unwrap panics
ClosedPanic ==
    /\ pc = "client"
    /\ ParseBool(closed) = "err"
    /\ Exit(ExitPanic)
    /\ UNCHANGED <<args, inference, history, encoder, store, trace, issued, pending, pr_content, embedding,
                   response, similar_prs, src_ids, output>>

\* mutant: main does not return after the delete and goes on to assemble
RemovePr_NoReturn ==
    /\ pc = "client"
    /\ ParseBool(closed) = "true"
    /\ LET id == uuid(REPO_NAME, PR_NUMBER)
       IN  \E ok \in BOOLEAN :
              /\ trace' = Append(trace, Event("delete", id, None, ok))
              /\ IF ok
                 THEN /\ store' = [store EXCEPT ![id] = None]
                      /\ pc' = "assemble"
                      /\ UNCHANGED exit_code
                 ELSE /\ Exit(ExitFailure)
                      /\ UNCHANGED store
    /\ UNCHANGED <<args, inference, history, encoder, issued, pending, pr_content, embedding, response,
                   similar_prs, src_ids, output>>

\* main.rs 153-159 with Upstash::remove_pr: one DELETE request, then return
RemovePr ==
    /\ pc = "client"
    /\ ParseBool(closed) = "true"
    /\ LET id == uuid(REPO_NAME, PR_NUMBER)
       IN  \E ok \in BOOLEAN :
              /\ trace' = Append(trace, Event("delete", id, None, ok))
              /\ IF ok
                 THEN /\ store' = [store EXCEPT ![id] = None]
                      /\ pc' = "done"
                      /\ exit_code' = Some(0)
                 ELSE /\ Exit(ExitFailure)
                      /\ UNCHANGED store
    /\ UNCHANGED <<args, inference, history, encoder, issued, pending, pr_content, embedding, response,
                   similar_prs, src_ids, output>>

\* main.rs 153: closed is false, main goes on to assemble the content
Opened ==
    /\ pc = "client"
    /\ ParseBool(closed) = "false"
    /\ pc' = "assemble"
    /\ UNCHANGED <<args, inference, history, encoder, exit_code, store, trace, issued, pending, pr_content,
                   embedding, response, similar_prs, src_ids, output>>

AllEmpty ==
    \A a \in {added_files, modified_files, removed_files, renamed_files} : a = <<>>

Files == pr_files(REPO_NAME, added_files, modified_files)

Min(a, b) == IF a < b THEN a ELSE b

\* main.rs 170-173: no file list has content, the placeholder is embedded
AssemblePlaceholder ==
    /\ pc = "assemble"
    /\ AllEmpty
    /\ pr_content' = <<<<" ">>>>
    /\ pc' = "embed"
    /\ UNCHANGED <<args, inference, history, encoder, exit_code, store, trace, issued, pending, embedding,
                   response, similar_prs, src_ids, output>>

\* main.rs 174-233: the stream starts up to BufferSize downloads in list order;
\* with nothing to download it ends at once and the removed and renamed files
\* are appended (235-248)
StartDownloads ==
    /\ pc = "assemble"
    /\ ~ AllEmpty
    /\ LET n == Min(BufferSize, Len(Files))
       IN  /\ issued' = n
           /\ pending' = 1..n
           /\ trace' = trace \o [i \in 1..n |-> Event("fetch", Files[i].path, None, TRUE)]
           /\ IF n = 0
              THEN /\ pr_content' = Extension(REPO_NAME, removed_files, renamed_files)
                   /\ pc' = "embed"
              ELSE /\ pr_content' = <<>>
                   /\ pc' = "fetch"
    /\ UNCHANGED <<args, inference, history, encoder, exit_code, store, embedding, response, similar_prs,
                   src_ids, output>>

\* main.rs 203-212: one download in flight completes with a body; its rendering
\* is collected in completion order, the next download starts, and when the
\* stream ends the removed and renamed files are appended (235-248)
DownloadDone ==
    /\ pc = "fetch"
    /\ \E i \in pending, content \in Contents :
          LET got == Append(pr_content, parse(Files[i].action, Files[i].path, Some(content)))
              more == issued < Len(Files)
              left == (pending \ {i}) \cup (IF more THEN {issued + 1} ELSE {})
          IN  /\ pending' = left
              /\ issued' = IF more THEN issued + 1 ELSE issued
              /\ trace' = Append(trace, Event("fetched", Files[i].path, None, TRUE))
                            \o (IF more
                                THEN <<Event("fetch", Files[issued + 1].path, None, TRUE)>>
                                ELSE <<>>)
              /\ IF left = {}
                 THEN /\ pr_content' = got \o Extension(REPO_NAME, removed_files, renamed_files)
                      /\ pc' = "embed"
                 ELSE /\ pr_content' = got
                      /\ pc' = "fetch"
    /\ UNCHANGED <<args, inference, history, encoder, exit_code, store, embedding, response, similar_prs,
                   src_ids, output>>

\* main.rs 222-228: a download fails (the request or reading the body), the
\* process exits; main.rs 207: a body that is not UTF-8 panics
DownloadError ==
    /\ pc = "fetch"
    /\ \E i \in pending, code \in {ExitFailure, ExitPanic} :
          /\ Exit(code)
          /\ trace' = Append(trace, Event("fetched", Files[i].path, None, FALSE))
    /\ UNCHANGED <<args, inference, history, encoder, store, issued, pending, pr_content, embedding,
                   response, similar_prs, src_ids, output>>

\* main.rs 253-258 with bert::generate_embeddings (bert.rs 245-251) up to the
\* start of the forward passes (bert.rs 179-219): loading the model may fail
\* (Err, exit 1); the splitter cuts the text into chunks; encode_batch may fail
\* (Err, unwrapped at bert.rs 250: panic); the buffer gets one OnesTensor per
\* chunk and par_iter starts one forward pass per chunk
GenerateEmbeddings ==
    /\ pc = "embed"
    /\ \/ /\ \E code \in {ExitFailure, ExitPanic} : Exit(code)
          /\ trace' = Append(trace, Event("embed", <<>>, None, FALSE))
          /\ UNCHANGED inference
       \/ LET cut == chunk_large_text(Blob(pr_content), MaxTokens)
          IN  /\ chunks' = cut
              /\ slots' = [i \in DOMAIN cut |-> OnesTensor]
              /\ running' = DOMAIN cut
              /\ pc' = IF cut = <<>> THEN "pool" ELSE "forward"
              /\ UNCHANGED <<exit_code, trace>>
    /\ UNCHANGED <<args, history, encoder, store, issued, pending, pr_content, embedding,
                   response, similar_prs, src_ids, output>>

\* bert.rs 220-229: one forward pass ends and its embedding is written to the
\* slot of its chunk; try_for_each_with returns when the last one has ended
ForwardDone ==
    /\ pc = "forward"
    /\ \E i \in running :
          /\ slots' = ForwardWrite(slots, i, Forward(chunks[i]))
          /\ running' = running \ {i}
          /\ pc' = IF running = {i} THEN "pool" ELSE "forward"
    /\ UNCHANGED <<args, history, encoder, exit_code, store, trace, issued, pending,
                   pr_content, embedding, response, similar_prs, src_ids, output,
                   chunks>>

\* mutant: the Err of a forward pass is dropped, its slot keeps the OnesTensor
\* and the run goes on
ForwardError_Skipped ==
    /\ pc = "forward"
    /\ \E i \in running :
          /\ trace' = Append(trace, Event("forward", <<>>, None, FALSE))
          /\ running' = running \ {i}
          /\ pc' = IF running = {i} THEN "pool" ELSE "forward"
    /\ UNCHANGED <<args, history, encoder, exit_code, store, issued, pending, pr_content,
                   embedding, response, similar_prs, src_ids, output, chunks,
                   slots>>

\* bert.rs 221-227, 232: a forward pass fails, try_for_each_with returns the
\* Err, Bert::generate_embeddings returns it (the buffer is dropped) and the
\* unwrap of bert.rs 250 panics
ForwardError ==
    /\ pc = "forward"
    /\ \E i \in running :
          /\ trace' = Append(trace, Event("forward", <<>>, None, FALSE))
          /\ slots' = <<>>
          /\ running' = {}
          /\ Exit(ExitPanic)
    /\ UNCHANGED <<args, history, encoder, store, issued, pending, pr_content, embedding,
                   response, similar_prs, src_ids, output, chunks>>

\* bert.rs 234-241 and 250: the buffer is stacked (Tensor::stack of no tensor
\* is an Err) and to_vec gives the vector of exactly one embedding; both
\* results are unwrapped
PoolEmbeddings ==
    /\ pc = "pool"
    /\ LET vector == IF slots = <<>> THEN None ELSE to_vec(slots)
       IN  IF vector /= None
           THEN /\ embedding' = vector
                /\ trace' = Append(trace, Event("embed", <<>>, vector, TRUE))
                /\ pc' = After("embed")
                /\ UNCHANGED exit_code
           ELSE /\ Exit(ExitPanic)
                /\ trace' = Append(trace, Event("embed", <<>>, None, FALSE))
                /\ UNCHANGED embedding
    /\ UNCHANGED <<args, inference, history, encoder, store, issued, pending, pr_content,
                   response, similar_prs, src_ids, output>>

\* main.rs 260-265 with Upstash::query: one POST of {topK, vector}; a transport
\* error, a status other than 200 or an unparsable body is an Err and the
\* process exits
QueryOf(answers) ==
    /\ pc = "query"
    /\ \/ /\ Exit(ExitFailure)
          /\ trace' = Append(trace, Event("query", <<>>, embedding, FALSE))
          /\ UNCHANGED <<response, similar_prs, src_ids>>
       \/ \E result \in answers :
             LET m == QueryMatches(result, REPO_NAME, PR_NUMBER, min_similarity)
             IN  /\ trace' = Append(trace, Event("query", <<>>, embedding, TRUE))
                 /\ response' = result
                 /\ similar_prs' = m.data
                 /\ src_ids' = m.ids
                 /\ pc' = After("query")
                 /\ UNCHANGED exit_code
    /\ UNCHANGED <<args, inference, history, encoder, store, issued, pending, pr_content, embedding, output>>

\* the index answers with any entries it holds
Query == QueryOf(Answers(store, top_k))

\* the index answers with the topK entries nearest to the vector
QueryRanked == QueryOf(Ranked(store, top_k, embedding))

\* mutant: a response other than 200 makes save_embedding send the request again
SaveEmbedding_Retry ==
    /\ pc = "save"
    /\ LET id == uuid(REPO_NAME, PR_NUMBER)
       IN  \E ok \in BOOLEAN :
              /\ trace' = Append(trace, Event("upsert", id, embedding, ok))
              /\ IF ok
                 THEN /\ store' = Upsert(store, id, embedding)
                      /\ pc' = After("save")
                 ELSE /\ pc' = "save"
                      /\ UNCHANGED store
              /\ UNCHANGED exit_code
    /\ UNCHANGED <<args, inference, history, encoder, issued, pending, pr_content,
                   embedding, response, similar_prs, src_ids, output>>

\* main.rs 271-273 with Upstash::save_embedding: one POST of {id, vector}
SaveEmbedding ==
    /\ pc = "save"
    /\ LET id == uuid(REPO_NAME, PR_NUMBER)
       IN  \E ok \in BOOLEAN :
              /\ trace' = Append(trace, Event("upsert", id, embedding, ok))
              /\ IF ok
                 THEN /\ store' = Upsert(store, id, embedding)
                      /\ pc' = After("save")
                      /\ UNCHANGED exit_code
                 ELSE /\ Exit(ExitFailure)
                      /\ UNCHANGED store
    /\ UNCHANGED <<args, inference, history, encoder, issued, pending, pr_content, embedding, response,
                   similar_prs, src_ids, output>>

\* upstash.rs 85-88 and main.rs 204: the client is built without a timeout and
\* reqwest::get sets none, so a request the server never answers leaves main
\* awaiting it for ever
NoResponse ==
    /\ \/ pc \in {"fetch", "query", "save"}
       \/ pc = "client" /\ ParseBool(closed) = "true"
    /\ pc' = "waiting"
    /\ UNCHANGED <<args, inference, history, encoder, exit_code, store, trace, issued,
                   pending, pr_content, embedding, response, similar_prs, src_ids,
                   output>>

\* main.rs 281-285: both set_output calls, then main returns
WriteOutputs ==
    /\ pc = "output"
    /\ output' = set_output(set_output(output, "similar_prs", similar_prs),
                            "similar_prs_markdown", to_html_table(similar_prs))
    /\ pc' = After("output")
    /\ exit_code' = Some(0)
    /\ UNCHANGED <<args, inference, history, encoder, store, trace, issued, pending, pr_content, embedding,
                   response, similar_prs, src_ids>>

Next ==
    \/ ClientError
    \/ ClientCreated
    \/ ClosedPanic
    \/ RemovePr
    \/ Opened
    \/ AssemblePlaceholder
    \/ StartDownloads
    \/ DownloadDone
    \/ DownloadError
    \/ GenerateEmbeddings
    \/ ForwardDone
    \/ ForwardError
    \/ PoolEmbeddings
    \/ Query
    \/ SaveEmbedding
    \/ NoResponse
    \/ WriteOutputs

Spec == Init /\ [][Next]_vars

\* the job is started again for the same PR (the next event of the PR): new
\* closed flag and file lists, a fresh process and a fresh GITHUB_OUTPUT file;
\* the index keeps what it holds
NewRun ==
    /\ pc \in {"done", "failed"}
    /\ runs < MaxRuns
    /\ runs' = runs + 1
    /\ last_run' = IF pc = "done"
                   THEN [path |-> IF ParseBool(closed) = "true" THEN "closed" ELSE "open",
                         vector |-> embedding,
                         content |-> Range(pr_content),
                         matches |-> Range(similar_prs)]
                   ELSE last_run
    /\ closed' \in ClosedArgs
    /\ \E f \in FileArgs :
          /\ added_files' = f[1]
          /\ modified_files' = f[2]
          /\ removed_files' = f[3]
          /\ renamed_files' = f[4]
    /\ pc' = "start"
    /\ exit_code' = None
    /\ trace' = <<>>
    /\ issued' = 0
    /\ pending' = {}
    /\ pr_content' = <<>>
    /\ embedding' = None
    /\ response' = <<>>
    /\ similar_prs' = <<>>
    /\ src_ids' = <<>>
    /\ output' = <<>>
    /\ chunks' = <<>>
    /\ slots' = <<>>
    /\ running' = {}
    /\ UNCHANGED <<REPO_NAME, PR_NUMBER, top_k, min_similarity, store, encoder>>

\* runs of the job for one PR, one after another, against an index that ranks
NextRuns ==
    \/ ClientError
    \/ ClientCreated
    \/ ClosedPanic
    \/ RemovePr
    \/ Opened
    \/ AssemblePlaceholder
    \/ StartDownloads
    \/ DownloadDone
    \/ DownloadError
    \/ GenerateEmbeddings
    \/ ForwardDone
    \/ ForwardError
    \/ PoolEmbeddings
    \/ QueryRanked
    \/ SaveEmbedding
    \/ NoResponse
    \/ WriteOutputs
    \/ NewRun

\* the first run of one PR, with the default threshold
InitRuns ==
    /\ Init
    /\ PR_NUMBER = <<"7">>
    /\ min_similarity = DefaultMinSimilarity

SpecRuns == InitRuns /\ [][NextRuns]_vars

\* ------------------------------------------- Bert::generate_embeddings
\* bert.rs 181-187: model and tokenizer are built, the caller asks for the
\* write guard of the tokenizer
Enter(c) ==
    /\ caller_pc[c] = "idle"
    /\ caller_pc' = [caller_pc EXCEPT ![c] = "write"]
    /\ UNCHANGED <<args, run, inference, history, write_lock, padding>>

\* mutant: the caller takes a read guard, which does not wait for the others
WriteGuard_Shared(c) ==
    /\ caller_pc[c] = "write"
    /\ write_lock' = Some(c)
    /\ caller_pc' = [caller_pc EXCEPT ![c] = "padding"]
    /\ UNCHANGED <<args, run, inference, history, padding>>

\* bert.rs 186-187: self.tokenizer.write().await completes when no other
\* guard is alive
WriteGuard(c) ==
    /\ caller_pc[c] = "write"
    /\ write_lock = None
    /\ write_lock' = Some(c)
    /\ caller_pc' = [caller_pc EXCEPT ![c] = "padding"]
    /\ UNCHANGED <<args, run, inference, history, padding>>

\* bert.rs 190-198: the padding strategy becomes BatchLongest
SetPadding(c) ==
    /\ caller_pc[c] = "padding"
    /\ padding' = "BatchLongest"
    /\ caller_pc' = [caller_pc EXCEPT ![c] = "encode"]
    /\ UNCHANGED <<args, run, inference, history, write_lock>>

\* bert.rs 200-219: encode_batch of the caller's prompts; an Err returns and
\* drops the guard; else one OnesTensor per prompt and one forward pass each
EncodeBatch(c) ==
    /\ caller_pc[c] = "encode"
    /\ \/ /\ caller_pc' = [caller_pc EXCEPT ![c] = "err"]
          /\ write_lock' = IF write_lock = Some(c) THEN None ELSE write_lock
          /\ UNCHANGED inference
       \/ \E n \in 1..MaxChunks :
             /\ chunks' = [i \in 1..n |-> [part |-> i, of |-> <<"prompt">>]]
             /\ slots' = [i \in 1..n |-> OnesTensor]
             /\ running' = 1..n
             /\ caller_pc' = [caller_pc EXCEPT ![c] = "forward"]
             /\ UNCHANGED write_lock
    /\ UNCHANGED <<args, run, history, padding>>

\* bert.rs 220-229: a forward pass of the caller ends and writes its slot
CallerForwardDone(c) ==
    /\ caller_pc[c] = "forward"
    /\ \E i \in running :
          /\ slots' = ForwardWrite(slots, i, Forward(chunks[i]))
          /\ running' = running \ {i}
          /\ caller_pc' = [caller_pc EXCEPT ![c] = IF running = {i} THEN "stack" ELSE "forward"]
    /\ UNCHANGED <<args, run, history, chunks, write_lock, padding>>

\* bert.rs 221-232: a forward pass fails, the Err is returned and the guard
\* and the buffer are dropped
CallerForwardError(c) ==
    /\ caller_pc[c] = "forward"
    /\ running /= {}
    /\ slots' = <<>>
    /\ running' = {}
    /\ caller_pc' = [caller_pc EXCEPT ![c] = "err"]
    /\ write_lock' = IF write_lock = Some(c) THEN None ELSE write_lock
    /\ UNCHANGED <<args, run, history, chunks, padding>>

\* bert.rs 234-241: the buffer is stacked and returned; the guard is dropped
\* when the function returns
StackAndReturn(c) ==
    /\ caller_pc[c] = "stack"
    /\ caller_pc' = [caller_pc EXCEPT ![c] = "ok"]
    /\ write_lock' = IF write_lock = Some(c) THEN None ELSE write_lock
    /\ UNCHANGED <<args, run, inference, history, padding>>

\* concurrent calls of generate_embeddings on one Bert (trait Embedding)
NextEmbed ==
    \E c \in Callers :
        \/ Enter(c)
        \/ WriteGuard(c)
        \/ SetPadding(c)
        \/ EncodeBatch(c)
        \/ CallerForwardDone(c)
        \/ CallerForwardError(c)
        \/ StackAndReturn(c)

\* one Bert after build_model_and_tokenizer, no call in progress
InitEmbed ==
    /\ Init
    /\ REPO_NAME = <<"o", "/", "r">>
    /\ PR_NUMBER = <<"7">>
    /\ closed = <<"true">>
    /\ top_k = 1
    /\ min_similarity = DefaultMinSimilarity
    /\ AllEmpty
    /\ Stored(store) = {}

SpecEmbed == InitEmbed /\ [][NextEmbed]_vars

TypeOK ==
    /\ pc \in {"start", "client", "assemble", "fetch", "embed", "forward", "pool",
               "query", "save", "output", "waiting", "done", "failed"}
    /\ running \subseteq DOMAIN slots
    /\ runs \in 1..MaxRuns
    /\ write_lock \in {None} \cup {Some(c) : c \in Callers}
    /\ padding \in {"unset", "BatchLongest"}
    /\ exit_code \in {None, Some(0), Some(ExitFailure), Some(ExitPanic)}
    /\ pending \subseteq 1..Len(Files)

\* ------------------------------------------------------------------ claims
SelfId == uuid(REPO_NAME, PR_NUMBER)

Queried == \E i \in DOMAIN trace : trace[i].op = "query" /\ trace[i].ok

\* C1: decoding the id the run sends to the store gives back the run's own
\* (repo, pr): uuid_to_repo_name(uuid(repo, pr)) = repo and
\* uuid_to_pr_number(uuid(repo, pr)) = pr
C1_RoundTrip ==
    \A i \in DOMAIN trace :
        trace[i].op \in {"upsert", "delete"} =>
            /\ uuid_to_repo_name(trace[i].id) = REPO_NAME
            /\ uuid_to_pr_number(trace[i].id) = PR_NUMBER

\* C2: no match returned by query comes from the querying PR's own id, and no
\* match points at the querying PR
C2_NoSelfMatch ==
    /\ Len(src_ids) = Len(similar_prs)
    /\ \A i \in DOMAIN similar_prs :
          /\ src_ids[i] /= REPO_NAME \o <<":">> \o PR_NUMBER
          /\ similar_prs[i].pr_url
                /= <<"https://github.com/">> \o REPO_NAME \o <<"/pull/">> \o PR_NUMBER

\* the store held the PR's own vector, answered with it above the threshold
\* next to another entry, and only the other entry was returned
C2_Witness ==
    /\ Queried
    /\ store[SelfId] /= None
    /\ \E k \in DOMAIN response :
          /\ response[k].id = SelfId
          /\ response[k].score * Hundred >= min_similarity * ScoreScale
    /\ similar_prs /= <<>>

\* C3: every match returned by query comes from an entry written for the
\* current repository
C3_SameRepoOnly ==
    \A i \in DOMAIN src_ids :
        \A r \in RepoNames, p \in PrNumbers :
            src_ids[i] = r \o <<":">> \o p => r = REPO_NAME

\* C4: a match is returned only with percentage >= min_similarity, and every
\* entry that passes the identity filter with percentage >= min_similarity
\* (the boundary included) is returned
C4_Threshold ==
    /\ \A i \in DOMAIN similar_prs :
          similar_prs[i].percentage >= min_similarity * ScoreScale
    /\ Queried =>
          \A k \in DOMAIN response :
              ( /\ FromFilter(REPO_NAME, PR_NUMBER, response[k])
                /\ response[k].score * Hundred >= min_similarity * ScoreScale )
              => response[k].id \in Range(src_ids)

\* a match exactly at the threshold is returned while an entry below it is dropped
C4_Witness ==
    /\ Queried
    /\ min_similarity = DefaultMinSimilarity
    /\ \E i \in DOMAIN similar_prs :
          similar_prs[i].percentage = min_similarity * ScoreScale
    /\ \E k \in DOMAIN response :
          /\ FromFilter(REPO_NAME, PR_NUMBER, response[k])
          /\ response[k].score * Hundred < min_similarity * ScoreScale

C6_Descending ==
    \A i, j \in DOMAIN similar_prs :
        i < j => similar_prs[i].percentage >= similar_prs[j].percentage

\* C7: the upsert is sent only after a successful query, the query and the
\* upsert only after the embedding is computed and with that vector, and no
\* upsert of this run precedes its query
C7_QueryBeforeUpsert ==
    \A i \in DOMAIN trace :
        /\ trace[i].op = "upsert" =>
              \E j \in 1..(i - 1) : trace[j].op = "query" /\ trace[j].ok
        /\ trace[i].op \in {"query", "upsert"} =>
              \E j \in 1..(i - 1) :
                  /\ trace[j].op = "embed"
                  /\ trace[j].ok
                  /\ trace[j].vector /= None
                  /\ trace[j].vector = trace[i].vector
        /\ trace[i].op = "query" =>
              \A j \in 1..(i - 1) : trace[j].op /= "upsert"

\* an open run that embedded, queried and persisted, and the store holds the
\* vector it queried with
C7_Witness ==
    /\ pc = "done"
    /\ \E i \in DOMAIN trace : trace[i].op = "upsert" /\ trace[i].ok
    /\ store[SelfId] = embedding
    /\ embedding /= None

\* C8: on the closed path the run sends the delete of its own id and nothing
\* else: no download, no embedding, no query, no upsert, no output; it ends
\* Done once the delete succeeded
C8_ClosedOnlyDeletes ==
    ParseBool(closed) = "true" =>
        /\ \A i \in DOMAIN trace :
              \/ trace[i].op = "client"
              \/ /\ trace[i].op = "delete"
                 /\ trace[i].id = REPO_NAME \o <<":">> \o PR_NUMBER
                 /\ i = Len(trace)
        /\ issued = 0 /\ pending = {} /\ pr_content = <<>>
        /\ embedding = None
        /\ pc \in {"start", "client", "waiting", "done", "failed"}
        /\ pc = "done" =>
              /\ Last(trace).op = "delete" /\ Last(trace).ok
              /\ store[SelfId] = None
              /\ exit_code = Some(0)
              /\ output = <<>>

\* a closed run whose PR was stored has ended Done
C8_Witness ==
    /\ ParseBool(closed) = "true"
    /\ pc = "done"
    /\ \E i \in DOMAIN trace : trace[i].op = "delete" /\ trace[i].ok

\* C9: a step that reports an error is the last step of the run, which is then
\* Failed with a nonzero exit status; a failed query is not followed by an upsert
C9_TerminalOnFirstFailure ==
    \A i \in DOMAIN trace :
        ~ trace[i].ok =>
            /\ i = Len(trace)
            /\ pc = "failed"
            /\ exit_code \in {Some(ExitFailure), Some(ExitPanic)}

\* the query failed after the embedding was computed
C9_Witness ==
    /\ pc = "failed"
    /\ trace /= <<>>
    /\ Last(trace).op = "query"
    /\ ~ Last(trace).ok
    /\ embedding /= None

\* C10: when the upsert fails after a successful query the query results are
\* in the job output and the exit status is nonzero
C10_ResultsNotSuppressed ==
    ( /\ trace /= <<>>
      /\ Last(trace).op = "upsert"
      /\ ~ Last(trace).ok
      /\ pc = "failed" ) =>
        /\ exit_code \in {Some(ExitFailure), Some(ExitPanic)}
        /\ \E k \in DOMAIN output :
              output[k].key = "similar_prs" /\ output[k].value = similar_prs

\* the first line of a rendered file: "{symbol} : {path}\n"
Header(rendered) ==
    LET nl == CHOOSE k \in DOMAIN rendered :
                  /\ rendered[k] = "\n"
                  /\ \A j \in 1..(k - 1) : rendered[j] /= "\n"
    IN  SubSeq(rendered, 1, nl)

\* the files of the run in the order the lists give them: added, modified,
\* removed, renamed
ListOrder ==
    [i \in DOMAIN Files |-> parse(Files[i].action, Files[i].path, None)]
        \o Extension(REPO_NAME, removed_files, renamed_files)

\* C11: when the downloads have all completed, in whatever order, the content
\* holds the files in list order: added, then modified, then removed, then
\* renamed, each list in its own order
C11_ListOrder ==
    (pc = "embed" /\ ~ AllEmpty) =>
        /\ Len(pr_content) = Len(ListOrder)
        /\ \A i \in DOMAIN pr_content : Header(pr_content[i]) = ListOrder[i]

\* C12: a download that fails does not end the run: right after it the run is
\* not Failed and the file is in the content, rendered without a body
C12_FetchFailureRecoverable ==
    \A i \in DOMAIN trace :
        (trace[i].op = "fetched" /\ ~ trace[i].ok) =>
            /\ pc /= "failed" \/ i < Len(trace)
            /\ \E k \in DOMAIN pr_content, f \in DOMAIN Files :
                  /\ Files[f].path = trace[i].id
                  /\ pr_content[k] \in {parse(Files[f].action, Files[f].path, None),
                                         parse(Files[f].action, Files[f].path, Some(<<>>))}

\* C13: a run whose four file lists are all empty starts no download, embeds
\* the placeholder " ", and the embedding step gets from it a buffer that
\* pools to a vector, so the run goes on to query and upsert
C13_PlaceholderEmbeds ==
    (AllEmpty /\ ParseBool(closed) = "false") =>
        /\ \A i \in DOMAIN trace : trace[i].op \notin {"fetch", "fetched"}
        /\ pc \in {"embed", "forward", "pool"} => pr_content = <<<<" ">>>>
        /\ pc = "pool" => (slots /= <<>> /\ to_vec(slots) /= None)

\* C14: content the splitter cuts into more than one chunk, every forward
\* pass of which succeeded, gives one vector and the run goes on
C14_MultiChunk ==
    (Len(chunks) > 1 /\ slots /= <<>> /\ pc \notin {"forward", "pool"}) =>
        /\ embedding /= None
        /\ \A i \in DOMAIN trace : trace[i].op = "embed" => trace[i].ok

\* C17: while the forward passes complete in any order, the slot of every
\* finished chunk holds the result of that chunk and the slot of every
\* running chunk holds the placeholder; when all have finished, slot i holds
\* the result of chunk i for every i
C17_SlotOrder ==
    pc \in {"forward", "pool"} =>
        /\ Len(slots) = Len(chunks)
        /\ \A i \in DOMAIN slots :
              slots[i] = IF i \in running THEN OnesTensor ELSE Forward(chunks[i])

\* two chunks or more, and a later chunk has finished while the first runs
C17_Witness ==
    /\ pc = "forward"
    /\ Len(chunks) >= 2
    /\ running = {1}
    /\ slots[Len(chunks)] = Forward(chunks[Len(chunks)])

\* C18: a forward pass that fails ends the run: no buffer and no vector is
\* returned, the run is Failed, and it sends no query and no upsert
C18_ForwardFailureAborts ==
    \A i \in DOMAIN trace :
        (trace[i].op = "forward" /\ ~ trace[i].ok) =>
            /\ pc = "failed"
            /\ exit_code /= Some(0)
            /\ slots = <<>>
            /\ embedding = None
            /\ \A j \in DOMAIN trace : trace[j].op \notin {"embed", "query", "upsert"}

\* a forward pass of a content of several chunks has failed
C18_Witness ==
    /\ trace /= <<>>
    /\ Last(trace).op = "forward"
    /\ ~ Last(trace).ok
    /\ Len(chunks) >= 2
    /\ pc = "failed"

Requests(op) == {i \in DOMAIN trace : trace[i].op = op}

\* C19: one run sends at most one upsert, one query and one delete; a request
\* answered with an error is the last request of the run
C19_OneRequest ==
    /\ \A op \in {"upsert", "query", "delete"} : Cardinality(Requests(op)) <= 1
    /\ \A i \in DOMAIN trace :
          (trace[i].op \in {"upsert", "query", "delete"} /\ ~ trace[i].ok) =>
              \A j \in DOMAIN trace : trace[j].op \in {"upsert", "query", "delete"} => j <= i

\* the upsert was answered with an error, after a query that succeeded
C19_Witness ==
    /\ pc = "failed"
    /\ Cardinality(Requests("upsert")) = 1
    /\ Cardinality(Requests("query")) = 1
    /\ ~ Last(trace).ok
    /\ Last(trace).op = "upsert"

\* C20: a run that has not ended Done or Failed can always take a step; it
\* never waits for ever for a request that gets no response
C20_Terminates == pc \in {"done", "failed"} \/ ENABLED Next

\* the last run that ended Done, the current one included
LastDone ==
    IF pc = "done"
    THEN [path |-> IF ParseBool(closed) = "true" THEN "closed" ELSE "open",
          vector |-> embedding]
    ELSE [path |-> last_run.path, vector |-> last_run.vector]

C16_Idempotent ==
    (/\ pc \in {"save", "output", "done"}
     /\ ParseBool(closed) = "false"
     /\ last_run.path = "open"
     /\ Range(pr_content) = last_run.content) =>
        /\ embedding = last_run.vector
        /\ Range(similar_prs) = last_run.matches

\* C22: after an open-path run that ended Done the GITHUB_OUTPUT file holds
\* both outputs, similar_prs and similar_prs_markdown: the second write
\* leaves the first in place
C22_BothOutputs ==
    (pc = "done" /\ ParseBool(closed) = "false") =>
        /\ \E i \in DOMAIN output :
              output[i].key = "similar_prs" /\ output[i].value = similar_prs
        /\ \E i \in DOMAIN output :
              /\ output[i].key = "similar_prs_markdown"
              /\ output[i].value = to_html_table(similar_prs)

\* C24: the content handed to the embedding is never the empty sequence, also
\* when some file list is not empty but every entry of the lists is dropped
C24_ContentNonEmpty ==
    pc \in {"embed", "forward", "pool"} => pr_content /= <<>>

\* C23: when the index holds the vector of another PR of the repository (its
\* open-path run ended Done and it was not closed since) and answers the
\* query of this run with that entry at a score of at least the threshold,
\* the matches of this run hold that PR
C23_StoredMatchReturned ==
    Queried =>
        \A i \in DOMAIN response :
            \A p \in PrNumbers \ {PR_NUMBER} :
                (/\ response[i].id = uuid(REPO_NAME, p)
                 /\ store[response[i].id] /= None
                 /\ response[i].score * Hundred >= AsF32(min_similarity)) =>
                    \E k \in DOMAIN similar_prs :
                        /\ src_ids[k] = response[i].id
                        /\ similar_prs[k].percentage = response[i].score * Hundred

\* a caller is configuring the padding, tokenizing or running inference
InCall(c) == caller_pc[c] \in {"padding", "encode", "forward", "stack"}

\* C21: a caller that configures the padding, tokenizes or runs inference
\* holds the write guard of the tokenizer, from before the padding is set
\* until its call returns; no two calls on the same Bert are in these steps
\* at once
C21_ExclusiveEmbed ==
    /\ \A c \in Callers : InCall(c) => write_lock = Some(c)
    /\ \A c, d \in Callers : (InCall(c) /\ InCall(d)) => c = d

\* one caller runs inference while another waits for the write guard
C21_Witness ==
    \E c, d \in Callers :
        /\ c /= d
        /\ caller_pc[c] = "forward"
        /\ caller_pc[d] = "write"
====
